---- MODULE Spec2Model ----
(***************************************************************************)
(* Model of src/finance_merged.py: the S&P 500 symbol source, the batch    *)
(* loop of fetch_stock_data, the indicator block it runs on one price      *)
(* series, and the top-level script that ties them together.               *)
(*                                                                         *)
(* Part I  (Spec, SpecGroup): the control flow of the script and of        *)
(*          fetch_stock_data, one action per statement that can raise or   *)
(*          branch.  The provider (yfinance) and the symbol page are the   *)
(*          environment: their answers are drawn nondeterministically.     *)
(* Part II (SpecInd): the indicator block (lines 40-77) as operators over  *)
(*          one price series, with pandas' NaN / inf semantics.            *)
(***************************************************************************)
EXTENDS Integers, Sequences, FiniteSets, TLC

\* ------------------------------------------------------------------------
\* Program constants
\* ------------------------------------------------------------------------
batch_size == 50
MinBars == 200
TailRows == 5

\* ------------------------------------------------------------------------
\* Bounds of the model
\* ------------------------------------------------------------------------
\* Number of distinct provider behaviours (identifiers congruent modulo
\* NumIds get the same answer from the provider), length of the short
\* identifier lists, and how far the long lists exceed one group.
NumIds == 2
MaxTickers == 3
MaxExtra == 2

VARIABLES
  pc,          \* statement the script is at
  exc,         \* the exception that escaped ("none" while running)
  tickers,     \* sp500_tickers / the tickers parameter
  provider,    \* environment: what the provider answers for an identifier
  bs,          \* local batch_size of the running fetch_stock_data
  i,           \* group loop variable (0-based offset of the group)
  batch_tickers, \* tickers[i:i+batch_size]
  j,           \* 1-based index of the current ticker in batch_tickers
  hist_len,    \* len(hist) of the current ticker
  all_data,    \* the result dict, as the sequence of its items in insertion order
  path,        \* per list position: the stages the identifier went through
  computed,    \* list positions whose indicator block was executed
  csv_written, \* sp500_tickers.csv exists
  report_written, \* sp500_analysis.xlsx exists
  message,     \* the "No tickers retrieved" line was printed
  fetch_called, \* fetch_stock_data was entered
  first,       \* result of the first run, kept by the grouping comparison
  hist,        \* Part II: the price series of one identifier
  cols,        \* Part II: the indicator columns computed so far
  ipc          \* Part II: position in the indicator block

vars == <<pc, exc, tickers, provider, bs, i, batch_tickers, j, hist_len,
          all_data, path, computed, csv_written, report_written, message,
          fetch_called, first, hist, cols, ipc>>

orchVars == <<pc, exc, tickers, provider, bs, i, batch_tickers, j, hist_len,
              all_data, path, computed, csv_written, report_written, message,
              fetch_called, first>>

Min(a, b) == IF a < b THEN a ELSE b
Max(a, b) == IF a > b THEN a ELSE b

\* ========================================================================
\* Part I: the script and fetch_stock_data
\* ========================================================================

\* What can go wrong for one identifier, by the first statement that raises:
\*   handle  - building yf.Tickers(" ".join(batch)) raises because of it
\*   lookup  - data.tickers[ticker]        info    - stock.info
\*   history - stock.history(...)          calc    - the indicator block
\*   extract - tail / reset_index / tz_localize
\*   none    - nothing raises; bars is the length of the returned history
FailKinds == {"handle", "lookup", "info", "history", "calc", "extract", "none"}
Outcomes ==
  {[fail |-> f, bars |-> MinBars] : f \in FailKinds \ {"none"}}
  \cup {[fail |-> f, bars |-> MinBars - 1] : f \in {"calc", "none"}}
  \cup {[fail |-> "none", bars |-> MinBars]}

ClassOf(t) == ((t - 1) % NumIds) + 1
ProviderOf(t) == provider[ClassOf(t)]

\* Exceptions the symbol source can meet, and the ones its handlers name.
SourceErrors == {"ImportError", "RequestException", "ValueError", "URLError"}
SourceCaught == {"ImportError", "RequestException", "ValueError"}

\* The identifier lists: every short list over 1..NumIds (repetitions
\* allowed), and the lists 1..n of distinct identifiers that are longer than
\* one group.
ShortLists == UNION {[1..n -> 1..NumIds] : n \in 0..MaxTickers}
LongLists == {[k \in 1..(batch_size + e) |-> k] : e \in 1..MaxExtra}
TickerLists == ShortLists \cup LongLists

NoRun == [done |-> FALSE, raised |-> FALSE, data |-> <<>>]

\* dict item assignment: all_data[ticker] = value keeps the position of an
\* existing key and appends a new one.
Keys(d) == {d[k].key : k \in 1..Len(d)}
Put(d, key, val) ==
  IF key \in Keys(d)
  THEN [k \in 1..Len(d) |-> IF d[k].key = key THEN [key |-> key, val |-> val] ELSE d[k]]
  ELSE Append(d, [key |-> key, val |-> val])

\* hist.tail(5).reset_index() of the series the provider returned for ticker:
\* the window is determined by the identifier and its series.
Window(ticker, n) == [ticker |-> ticker, rows |-> Min(TailRows, n), last |-> n]

pos == i + j
ticker == batch_tickers[j]

InitOrch ==
  /\ pc = "read_html"
  /\ exc = "none"
  /\ tickers = <<>>
  /\ provider \in [1..NumIds -> Outcomes]
  /\ bs = batch_size
  /\ i = 0
  /\ batch_tickers = <<>>
  /\ j = 0
  /\ hist_len = 0
  /\ all_data = <<>>
  /\ path = <<>>
  /\ computed = {}
  /\ csv_written = FALSE
  /\ report_written = FALSE
  /\ message = FALSE
  /\ fetch_called = FALSE
  /\ first = NoRun

IndIdle ==
  /\ hist = <<>>
  /\ cols = <<>>
  /\ ipc = "off"

Init == InitOrch /\ IndIdle

\* ---- get_sp500_tickers_wikipedia (lines 6-20) ---------------------------

\* The except clauses of lines 14-20: a named exception makes the function
\* return []; any other one leaves the function and ends the script.
SourceRaise(e) ==
  IF e \in SourceCaught
  THEN /\ tickers' = <<>>
       /\ pc' = "truthy"
       /\ exc' = exc
  ELSE /\ pc' = "crashed"
       /\ exc' = e
       /\ tickers' = tickers

\* line 10: tables = pd.read_html(url)
ReadHtml ==
  /\ pc = "read_html"
  /\ \/ /\ pc' = "first_table"
        /\ UNCHANGED <<exc, tickers>>
     \/ \E e \in SourceErrors : SourceRaise(e)
  /\ UNCHANGED <<provider, bs, i, batch_tickers, j, hist_len, all_data, path,
                 computed, csv_written, report_written, message, fetch_called,
                 first, hist, cols, ipc>>

\* line 11: sp500_table = tables[0]
FirstTable ==
  /\ pc = "first_table"
  /\ \/ /\ pc' = "symbol_column"
        /\ UNCHANGED <<exc, tickers>>
     \/ SourceRaise("IndexError")
  /\ UNCHANGED <<provider, bs, i, batch_tickers, j, hist_len, all_data, path,
                 computed, csv_written, report_written, message, fetch_called,
                 first, hist, cols, ipc>>

\* lines 12-13: tickers = sp500_table['Symbol'].tolist(); return tickers
SymbolColumn ==
  /\ pc = "symbol_column"
  /\ \/ /\ \E l \in TickerLists : tickers' = l
        /\ pc' = "truthy"
        /\ exc' = exc
     \/ SourceRaise("KeyError")
  /\ UNCHANGED <<provider, bs, i, batch_tickers, j, hist_len, all_data, path,
                 computed, csv_written, report_written, message, fetch_called,
                 first, hist, cols, ipc>>

\* ---- the script (lines 100-140) -----------------------------------------

\* line 107: if sp500_tickers:   (else: line 140)
\* A list is true when it is not empty.  (IsTruthy_always: the branch taken
\* whatever the list.)
IsTruthy_always(l) == TRUE
IsTruthy(l) == l # <<>>

Truthy ==
  /\ pc = "truthy"
  /\ IF IsTruthy(tickers)
     THEN /\ pc' = "to_csv"
          /\ message' = message
     ELSE /\ pc' = "end"
          /\ message' = TRUE
  /\ UNCHANGED <<exc, tickers, provider, bs, i, batch_tickers, j, hist_len,
                 all_data, path, computed, csv_written, report_written,
                 fetch_called, first, hist, cols, ipc>>

\* line 108: pd.DataFrame(...).to_csv('sp500_tickers.csv'); the write can fail
ToCsv ==
  /\ pc = "to_csv"
  /\ \/ /\ csv_written' = TRUE
        /\ pc' = "call_fetch"
        /\ exc' = exc
     \/ /\ pc' = "crashed"
        /\ exc' = "OSError"
        /\ csv_written' = csv_written
  /\ UNCHANGED <<tickers, provider, bs, i, batch_tickers, j, hist_len,
                 all_data, path, computed, report_written, message,
                 fetch_called, first, hist, cols, ipc>>

\* line 114 and lines 24-25: ticker_data = fetch_stock_data(sp500_tickers)
CallFetch ==
  /\ pc = "call_fetch"
  /\ fetch_called' = TRUE
  /\ bs' = batch_size
  /\ all_data' = <<>>
  /\ i' = 0
  /\ path' = [p \in 1..Len(tickers) |-> <<>>]
  /\ pc' = "for_group"
  /\ UNCHANGED <<exc, tickers, provider, batch_tickers, j, hist_len, computed,
                 csv_written, report_written, message, first, hist, cols, ipc>>

\* lines 116-138: the report is written from ticker_data; the write can fail
Report ==
  /\ pc = "returned"
  /\ \/ /\ report_written' = TRUE
        /\ pc' = "end"
        /\ exc' = exc
     \/ /\ pc' = "crashed"
        /\ exc' = "OSError"
        /\ report_written' = report_written
  /\ UNCHANGED <<tickers, provider, bs, i, batch_tickers, j, hist_len,
                 all_data, path, computed, csv_written, message,
                 fetch_called, first, hist, cols, ipc>>

\* ---- fetch_stock_data (lines 22-98) -------------------------------------

\* line 27: for i in range(0, len(tickers), batch_size), line 28, and the
\* return of line 98 when the range is exhausted.
\* (GroupSlice_short: the slice tickers[i:i+batch_size-1], one short.)
GroupSlice_short(l, from, size) == SubSeq(l, from + 1, Min(from + size - 1, Len(l)))
GroupSlice(l, from, size) == SubSeq(l, from + 1, Min(from + size, Len(l)))

ForGroup ==
  /\ pc = "for_group"
  /\ IF i < Len(tickers)
     THEN /\ batch_tickers' = GroupSlice(tickers, i, bs)
          /\ pc' = "handle"
     ELSE /\ pc' = "returned"
          /\ batch_tickers' = batch_tickers
  /\ UNCHANGED <<exc, tickers, provider, bs, i, j, hist_len, all_data, path,
                 computed, csv_written, report_written, message, fetch_called,
                 first, hist, cols, ipc>>

\* line 31: data = yf.Tickers(" ".join(batch_tickers)).  The statement is
\* outside the try block: what it raises leaves fetch_stock_data.
HandleRaises(batch) == \E k \in 1..Len(batch) : ProviderOf(batch[k]).fail = "handle"

Handle ==
  /\ pc = "handle"
  /\ IF HandleRaises(batch_tickers)
     THEN /\ pc' = "crashed"
          /\ exc' = "HandleError"
          /\ j' = j
     ELSE /\ pc' = "for_ticker"
          /\ j' = 1
          /\ exc' = exc
  /\ UNCHANGED <<tickers, provider, bs, i, batch_tickers, hist_len, all_data,
                 path, computed, csv_written, report_written, message,
                 fetch_called, first, hist, cols, ipc>>

\* line 33: for ticker in batch_tickers; when the batch is exhausted the
\* group loop takes its next step (i += batch_size).
ForTicker ==
  /\ pc = "for_ticker"
  /\ IF j <= Len(batch_tickers)
     THEN /\ pc' = "lookup"
          /\ path' = [path EXCEPT ![pos] = Append(@, "Fetch")]
          /\ i' = i
     ELSE /\ pc' = "for_group"
          /\ i' = i + bs
          /\ path' = path
  /\ UNCHANGED <<exc, tickers, provider, bs, batch_tickers, j, hist_len,
                 all_data, computed, csv_written, report_written, message,
                 fetch_called, first, hist, cols, ipc>>

\* lines 94-96: except Exception: print; continue
Except ==
  /\ path' = [path EXCEPT ![pos] = Append(@, "Failed")]
  /\ j' = j + 1
  /\ pc' = "for_ticker"

\* A statement of the try block that raises when the provider's answer for
\* the ticker fails at `kind`, and otherwise goes on to `next`.
TryStep(at, kind, next) ==
  /\ pc = at
  /\ IF ProviderOf(ticker).fail = kind
     THEN Except
     ELSE /\ pc' = next
          /\ UNCHANGED <<path, j>>

\* line 35: stock = data.tickers[ticker]
Lookup ==
  /\ TryStep("lookup", "lookup", "info")
  /\ UNCHANGED <<exc, tickers, provider, bs, i, batch_tickers, hist_len,
                 all_data, computed, csv_written, report_written, message,
                 fetch_called, first, hist, cols, ipc>>

\* line 36: info = stock.info
Info ==
  /\ TryStep("info", "info", "history")
  /\ UNCHANGED <<exc, tickers, provider, bs, i, batch_tickers, hist_len,
                 all_data, computed, csv_written, report_written, message,
                 fetch_called, first, hist, cols, ipc>>

\* line 37: hist = stock.history(period="1y", interval="1d", ...)
History ==
  /\ TryStep("history", "history", "len_check")
  /\ hist_len' = IF ProviderOf(ticker).fail = "history"
                 THEN hist_len ELSE ProviderOf(ticker).bars
  /\ UNCHANGED <<exc, tickers, provider, bs, i, batch_tickers, all_data,
                 computed, csv_written, report_written, message, fetch_called,
                 first, hist, cols, ipc>>

\* line 39: if len(hist) >= 200:   (else: line 93, then the next ticker)
\* (EnoughBars_strict: the comparison written len(hist) > 200.)
EnoughBars_strict(n) == n > MinBars
EnoughBars(n) == n >= MinBars

LenCheck ==
  /\ pc = "len_check"
  /\ IF EnoughBars(hist_len)
     THEN /\ pc' = "compute"
          /\ UNCHANGED <<path, j>>
     ELSE /\ path' = [path EXCEPT ![pos] = Append(@, "Skipped")]
          /\ j' = j + 1
          /\ pc' = "for_ticker"
  /\ UNCHANGED <<exc, tickers, provider, bs, i, batch_tickers, hist_len,
                 all_data, computed, csv_written, report_written, message,
                 fetch_called, first, hist, cols, ipc>>

\* lines 40-82: the indicator columns and the Ticker/Sector/Industry columns
Compute ==
  /\ pc = "compute"
  /\ IF ProviderOf(ticker).fail = "calc"
     THEN /\ Except
          /\ computed' = computed
     ELSE /\ pc' = "extract"
          /\ computed' = computed \cup {pos}
          /\ path' = [path EXCEPT ![pos] = Append(@, "Compute")]
          /\ j' = j
  /\ UNCHANGED <<exc, tickers, provider, bs, i, batch_tickers, hist_len,
                 all_data, csv_written, report_written, message, fetch_called,
                 first, hist, cols, ipc>>

\* lines 85-89: recent_hist = hist.tail(5).reset_index(); tz_localize(None)
Extract ==
  /\ pc = "extract"
  /\ IF ProviderOf(ticker).fail = "extract"
     THEN Except
     ELSE /\ pc' = "record"
          /\ path' = [path EXCEPT ![pos] = Append(@, "Extract")]
          /\ j' = j
  /\ UNCHANGED <<exc, tickers, provider, bs, i, batch_tickers, hist_len,
                 all_data, computed, csv_written, report_written, message,
                 fetch_called, first, hist, cols, ipc>>

\* line 91: all_data[ticker] = recent_hist
Record ==
  /\ pc = "record"
  /\ all_data' = Put(all_data, ticker, Window(ticker, hist_len))
  /\ path' = [path EXCEPT ![pos] = Append(@, "Recorded")]
  /\ j' = j + 1
  /\ pc' = "for_ticker"
  /\ UNCHANGED <<exc, tickers, provider, bs, i, batch_tickers, hist_len,
                 computed, csv_written, report_written, message, fetch_called,
                 first, hist, cols, ipc>>

FetchStep ==
  \/ ForGroup \/ Handle \/ ForTicker \/ Lookup \/ Info \/ History
  \/ LenCheck \/ Compute \/ Extract \/ Record

Next ==
  \/ ReadHtml \/ FirstTable \/ SymbolColumn
  \/ Truthy \/ ToCsv \/ CallFetch \/ Report
  \/ FetchStep

Spec == Init /\ [][Next]_vars

\* ---- the grouping comparison --------------------------------------------
\* fetch_stock_data is run on a list with the group size of the source, its
\* outcome is kept, and it is run again on the same list and the same
\* provider answers with a group size of 1.
InitGroup ==
  /\ pc = "for_group"
  /\ exc = "none"
  /\ tickers \in TickerLists
  /\ provider \in [1..NumIds -> Outcomes]
  /\ bs = batch_size
  /\ i = 0
  /\ batch_tickers = <<>>
  /\ j = 0
  /\ hist_len = 0
  /\ all_data = <<>>
  /\ path = [p \in 1..Len(tickers) |-> <<>>]
  /\ computed = {}
  /\ csv_written = FALSE
  /\ report_written = FALSE
  /\ message = FALSE
  /\ fetch_called = TRUE
  /\ first = NoRun
  /\ IndIdle

Rerun ==
  /\ pc \in {"returned", "crashed"}
  /\ ~first.done
  /\ first' = [done |-> TRUE, raised |-> (pc = "crashed"), data |-> all_data]
  /\ bs' = 1
  /\ all_data' = <<>>
  /\ i' = 0
  /\ j' = 0
  /\ batch_tickers' = <<>>
  /\ path' = [p \in 1..Len(tickers) |-> <<>>]
  /\ computed' = {}
  /\ exc' = "none"
  /\ pc' = "for_group"
  /\ UNCHANGED <<tickers, provider, hist_len, csv_written, report_written,
                 message, fetch_called, hist, cols, ipc>>

NextGroup == FetchStep \/ Rerun

SpecGroup == InitGroup /\ [][NextGroup]_vars

\* ========================================================================
\* Part II: the indicator block on one price series
\* ========================================================================
\* A float64 is a finite number n/d (d > 0, not necessarily in lowest
\* terms), NaN, +inf or -inf.  Arithmetic on finite numbers is exact
\* (rounding is not modelled: a rolling sum of zeros is zero); the sign of a
\* zero is not kept (no column of the block depends on it: a division by a
\* negative zero can only occur in avg_gain / avg_loss, and 100 / (1 + rs)
\* is a zero of either sign for rs = +inf and rs = -inf alike).
Num(n) == [k |-> "num", n |-> n, d |-> 1]
Frac(n, d) == [k |-> "num", n |-> n, d |-> d]
NaN == [k |-> "nan", n |-> 0, d |-> 1]
PosInf == [k |-> "inf", n |-> 0, d |-> 1]
NegInf == [k |-> "ninf", n |-> 0, d |-> 1]

IsNum(x) == x.k = "num"
IsNaN(x) == x.k = "nan"
IsInf(x) == x.k \in {"inf", "ninf"}
Sign(x) == CASE x.k = "inf" -> 1
             [] x.k = "ninf" -> -1
             [] x.k = "num" -> (IF x.n > 0 THEN 1 ELSE IF x.n < 0 THEN -1 ELSE 0)
             [] OTHER -> 0
OfSign(s) == IF s > 0 THEN PosInf ELSE NegInf
AbsInt(a) == IF a < 0 THEN -a ELSE a

\* x == y, x > y, x < y on floats (every comparison with NaN is False)
FEq(x, y) ==
  CASE IsNaN(x) \/ IsNaN(y) -> FALSE
    [] IsNum(x) /\ IsNum(y) -> x.n * y.d = y.n * x.d
    [] OTHER -> x.k = y.k
Rank(x) == IF x.k = "inf" THEN 1 ELSE IF x.k = "ninf" THEN -1 ELSE 0
FGt(x, y) ==
  CASE IsNaN(x) \/ IsNaN(y) -> FALSE
    [] IsNum(x) /\ IsNum(y) -> x.n * y.d > y.n * x.d
    [] OTHER -> Rank(x) > Rank(y)
FLt(x, y) == FGt(y, x)

FNeg(x) ==
  CASE IsNum(x) -> Frac(-x.n, x.d)
    [] x.k = "inf" -> NegInf
    [] x.k = "ninf" -> PosInf
    [] OTHER -> NaN
FAbs(x) ==
  CASE IsNum(x) -> Frac(AbsInt(x.n), x.d)
    [] IsInf(x) -> PosInf
    [] OTHER -> NaN
FAdd(x, y) ==
  CASE IsNaN(x) \/ IsNaN(y) -> NaN
    [] IsNum(x) /\ IsNum(y) ->
         IF x.d = y.d THEN Frac(x.n + y.n, x.d)
         ELSE Frac(x.n * y.d + y.n * x.d, x.d * y.d)
    [] IsInf(x) /\ IsInf(y) -> IF x.k = y.k THEN x ELSE NaN
    [] IsInf(x) -> x
    [] OTHER -> y
FSub(x, y) == FAdd(x, FNeg(y))
FMul(x, y) ==
  CASE IsNaN(x) \/ IsNaN(y) -> NaN
    [] IsNum(x) /\ IsNum(y) -> Frac(x.n * y.n, x.d * y.d)
    [] Sign(x) = 0 \/ Sign(y) = 0 -> NaN
    [] OTHER -> OfSign(Sign(x) * Sign(y))
\* true division of floats: no ZeroDivisionError, x/0 is +-inf and 0/0 is NaN
FDiv(x, y) ==
  CASE IsNaN(x) \/ IsNaN(y) -> NaN
    [] IsNum(x) /\ IsNum(y) ->
         IF y.n = 0
         THEN (IF x.n = 0 THEN NaN ELSE OfSign(x.n))
         ELSE Frac(x.n * y.d * Sign(y), x.d * AbsInt(y.n))
    [] IsInf(x) /\ IsInf(y) -> NaN
    [] IsInf(x) -> OfSign(Sign(x) * (IF Sign(y) < 0 THEN -1 ELSE 1))
    [] OTHER -> Num(0)

\* ---- Series operations ---------------------------------------------------
\* A column is a sequence of floats; bar index t of the source is t + 1 here.
Column(h, field) == [t \in 1..Len(h) |-> h[t][field]]
ColSub(a, b) == [t \in 1..Len(a) |-> FSub(a[t], b[t])]
ColAdd(a, b) == [t \in 1..Len(a) |-> FAdd(a[t], b[t])]
ColDiv(a, b) == [t \in 1..Len(a) |-> FDiv(a[t], b[t])]
ColScale(c, a) == [t \in 1..Len(a) |-> FMul(c, a[t])]
ColNeg(a) == [t \in 1..Len(a) |-> FNeg(a[t])]
ColAbs(a) == [t \in 1..Len(a) |-> FAbs(a[t])]
\* Series.shift(): the value of the previous bar, NaN at the first bar
Shift(a) == [t \in 1..Len(a) |-> IF t = 1 THEN NaN ELSE a[t - 1]]
\* Series.diff()
Diff(a) == ColSub(a, Shift(a))
\* delta.where(delta > 0, 0) and delta.where(delta < 0, 0): the value is kept
\* where the condition is True and replaced by 0 elsewhere; the condition is
\* False on NaN.
\* (WhereGt0_keepna: a where that leaves NaN in place.)
WhereGt0_keepna(a) ==
  [t \in 1..Len(a) |-> IF FGt(a[t], Num(0)) \/ IsNaN(a[t]) THEN a[t] ELSE Num(0)]
WhereGt0(a) == [t \in 1..Len(a) |-> IF FGt(a[t], Num(0)) THEN a[t] ELSE Num(0)]
WhereLt0(a) == [t \in 1..Len(a) |-> IF FLt(a[t], Num(0)) THEN a[t] ELSE Num(0)]
\* pd.concat([a, b, c], axis=1).max(axis=1): the row maximum, NaN skipped
FMax2(x, y) == IF IsNaN(x) THEN y ELSE IF IsNaN(y) THEN x ELSE IF FGt(y, x) THEN y ELSE x
RowMax(a, b, c) == [t \in 1..Len(a) |-> FMax2(FMax2(a[t], b[t]), c[t])]

\* ---- Rolling windows -----------------------------------------------------
\* Series.rolling(window=w): min_periods defaults to the window size; inf is
\* turned into NaN before the aggregation; a window with fewer than
\* min_periods valid observations gives NaN.
\* (MinPeriods_one: rolling(window=w, min_periods=1).)
MinPeriods_one(w) == 1
MinPeriods(w) == w
WinIdx(t, w) == Max(1, t - w + 1)..t
Valid(a, t, w) == {k \in WinIdx(t, w) : IsNum(a[k])}

\* Sum of the valid observations of a[lo..hi] (halving keeps the evaluation
\* shallow; the sum is exact, so the order of the additions is immaterial).
RECURSIVE WinSum(_, _, _)
WinSum(a, lo, hi) ==
  IF lo > hi THEN Num(0)
  ELSE IF lo = hi THEN (IF IsNum(a[lo]) THEN a[lo] ELSE Num(0))
  ELSE LET mid == (lo + hi) \div 2
       IN FAdd(WinSum(a, lo, mid), WinSum(a, mid + 1, hi))

MeanOf(a, V, t, w) ==
  LET s == WinSum(a, Max(1, t - w + 1), t) IN Frac(s.n, s.d * Cardinality(V))
\* Minimum / maximum of the valid observations of a[lo..hi] (NaN when none)
FMin2(x, y) == IF ~IsNum(x) THEN y ELSE IF ~IsNum(y) THEN x ELSE IF FLt(y, x) THEN y ELSE x
FMaxValid2(x, y) == IF ~IsNum(x) THEN y ELSE IF ~IsNum(y) THEN x ELSE IF FGt(y, x) THEN y ELSE x
RECURSIVE WinMin(_, _, _)
WinMin(a, lo, hi) ==
  IF lo >= hi THEN (IF IsNum(a[lo]) THEN a[lo] ELSE NaN)
  ELSE LET mid == (lo + hi) \div 2
       IN FMin2(WinMin(a, lo, mid), WinMin(a, mid + 1, hi))
RECURSIVE WinMax(_, _, _)
WinMax(a, lo, hi) ==
  IF lo >= hi THEN (IF IsNum(a[lo]) THEN a[lo] ELSE NaN)
  ELSE LET mid == (lo + hi) \div 2
       IN FMaxValid2(WinMax(a, lo, mid), WinMax(a, mid + 1, hi))
MinOf(a, V, t, w) == WinMin(a, Max(1, t - w + 1), t)
MaxOf(a, V, t, w) == WinMax(a, Max(1, t - w + 1), t)


\* Series.rolling(w).std(): the sample standard deviation (ddof = 1).  The
\* variance is exact; the square root is taken on the grid 1/d of the
\* variance's denominator (floor), since a float square root has no exact
\* rational value.
RECURSIVE IsqrtIn(_, _, _)
IsqrtIn(v, lo, hi) ==
  IF lo >= hi THEN lo
  ELSE LET mid == (lo + hi + 1) \div 2
       IN IF mid * mid <= v THEN IsqrtIn(v, mid, hi) ELSE IsqrtIn(v, lo, mid - 1)
Isqrt(v) == IsqrtIn(v, 0, Min(v, 46340))
FSqrt(x) == IF IsNum(x) /\ x.n >= 0 THEN Frac(Isqrt(x.n * x.d), x.d) ELSE x

RECURSIVE SumSqDev(_, _, _, _)
SumSqDev(a, lo, hi, m) ==
  IF lo > hi THEN Num(0)
  ELSE IF lo = hi
       THEN (IF IsNum(a[lo]) THEN LET dev == FSub(a[lo], m) IN FMul(dev, dev) ELSE Num(0))
  ELSE LET mid == (lo + hi) \div 2
       IN FAdd(SumSqDev(a, lo, mid, m), SumSqDev(a, mid + 1, hi, m))
StdOf(a, V, t, w) ==
  IF Cardinality(V) < 2 THEN NaN
  ELSE LET ss == SumSqDev(a, Max(1, t - w + 1), t, MeanOf(a, V, t, w))
       IN FSqrt(Frac(ss.n, ss.d * (Cardinality(V) - 1)))

RollingAgg(a, w, agg) ==
  [t \in 1..Len(a) |->
     LET V == Valid(a, t, w)
     IN IF Cardinality(V) < MinPeriods(w) \/ V = {} THEN NaN
        ELSE CASE agg = "mean" -> MeanOf(a, V, t, w)
               [] agg = "min" -> MinOf(a, V, t, w)
               [] agg = "max" -> MaxOf(a, V, t, w)
               [] agg = "std" -> StdOf(a, V, t, w)]
RollingMean(a, w) == RollingAgg(a, w, "mean")
RollingMin(a, w) == RollingAgg(a, w, "min")
RollingMax(a, w) == RollingAgg(a, w, "max")
RollingStd(a, w) == RollingAgg(a, w, "std")

\* ---- The indicator block (lines 39-85) -----------------------------------
\* The MACD columns (lines 44-49) are exponentially weighted means that no
\* checked property reads; they are left out of the columns kept here.
NoCols ==
  [MA50 |-> <<>>, MA200 |-> <<>>, delta |-> <<>>, gain |-> <<>>, loss |-> <<>>,
   avg_gain |-> <<>>, avg_loss |-> <<>>, RSI |-> <<>>,
   BBMiddle |-> <<>>, bb_std |-> <<>>, BBUpper |-> <<>>, BBLower |-> <<>>,
   low_14 |-> <<>>, high_14 |-> <<>>, StochK |-> <<>>, StochD |-> <<>>,
   tr |-> <<>>, ATR |-> <<>>, recent |-> <<>>]

Close == Column(hist, "Close")
High == Column(hist, "High")
Low == Column(hist, "Low")

\* lines 52-54
Gain(delta) == WhereGt0(delta)
Loss(delta) == ColNeg(WhereLt0(delta))
\* lines 57-58: rs = avg_gain / avg_loss; 100 - (100 / (1 + rs))
RsiOf(avg_gain, avg_loss) ==
  LET rs == ColDiv(avg_gain, avg_loss)
  IN [t \in 1..Len(rs) |-> FSub(Num(100), FDiv(Num(100), FAdd(Num(1), rs[t])))]
\* line 69: 100 * (Close - low_14) / (high_14 - low_14)
StochKOf(close, low_14, high_14) ==
  ColDiv(ColScale(Num(100), ColSub(close, low_14)), ColSub(high_14, low_14))
\* lines 73-76
TrueRange(high, low, close) ==
  RowMax(ColSub(high, low),
         ColAbs(ColSub(high, Shift(close))),
         ColAbs(ColSub(low, Shift(close))))

\* line 85: hist.tail(5): the last 5 bar positions (all of them when fewer)
TailRowsOf(n, rows) == Max(1, n - rows + 1)..n

\* The price series: `base` bars everywhere except for a run of `run` bars
\* of `other` starting at bar `start`.
Price(h, l, c) == [High |-> Num(h), Low |-> Num(l), Close |-> Num(c)]
BarChoices == {Price(3, 1, 1), Price(3, 1, 2), Price(2, 2, 2), Price(2, 2, 3)}
MissingBar == [High |-> NaN, Low |-> NaN, Close |-> NaN]
MaxOver == 1
PulseStarts == {0, 1, 13}
PulseRuns == {1, 14}
Pulse(n, base, other, start, run) ==
  [t \in 1..n |-> IF start < t /\ t <= start + run THEN other ELSE base]
SeriesChoices ==
  {Pulse(n, b, o, s, r) :
     n \in (MinBars - 1)..(MinBars + MaxOver), b \in BarChoices,
     o \in BarChoices \cup {MissingBar},
     s \in PulseStarts, r \in PulseRuns}

InitInd ==
  /\ pc = "off"
  /\ exc = "none"
  /\ tickers = <<>>
  /\ provider = <<>>
  /\ bs = batch_size
  /\ i = 0
  /\ batch_tickers = <<>>
  /\ j = 0
  /\ hist_len = 0
  /\ all_data = <<>>
  /\ path = <<>>
  /\ computed = {}
  /\ csv_written = FALSE
  /\ report_written = FALSE
  /\ message = FALSE
  /\ fetch_called = FALSE
  /\ first = NoRun
  /\ hist \in SeriesChoices
  /\ cols = NoCols
  /\ ipc = "len_check"

\* line 39
IndLenCheck ==
  /\ ipc = "len_check"
  /\ ipc' = IF EnoughBars(Len(hist)) THEN "ma" ELSE "skipped"
  /\ UNCHANGED <<hist, cols, orchVars>>

\* lines 40-42
IndMA ==
  /\ ipc = "ma"
  /\ cols' = [cols EXCEPT !.MA50 = RollingMean(Close, 50),
                          !.MA200 = RollingMean(Close, 200)]
  /\ ipc' = "delta"
  /\ UNCHANGED <<hist, orchVars>>

\* lines 52-54
IndDelta ==
  /\ ipc = "delta"
  /\ LET delta == Diff(Close)
     IN cols' = [cols EXCEPT !.delta = delta, !.gain = Gain(delta),
                             !.loss = Loss(delta)]
  /\ ipc' = "avg"
  /\ UNCHANGED <<hist, orchVars>>

\* lines 55-56
IndAvg ==
  /\ ipc = "avg"
  /\ cols' = [cols EXCEPT !.avg_gain = RollingMean(cols.gain, 14),
                          !.avg_loss = RollingMean(cols.loss, 14)]
  /\ ipc' = "rsi"
  /\ UNCHANGED <<hist, orchVars>>

\* lines 57-58
IndRSI ==
  /\ ipc = "rsi"
  /\ cols' = [cols EXCEPT !.RSI = RsiOf(cols.avg_gain, cols.avg_loss)]
  /\ ipc' = "bb_mid"
  /\ UNCHANGED <<hist, orchVars>>

\* lines 61-62
IndBBMid ==
  /\ ipc = "bb_mid"
  /\ cols' = [cols EXCEPT !.BBMiddle = RollingMean(Close, 20),
                          !.bb_std = RollingStd(Close, 20)]
  /\ ipc' = "bb_bands"
  /\ UNCHANGED <<hist, orchVars>>

\* lines 63-64
IndBBBands ==
  /\ ipc = "bb_bands"
  /\ cols' = [cols EXCEPT
       !.BBUpper = ColAdd(cols.BBMiddle, ColScale(Num(2), cols.bb_std)),
       !.BBLower = ColSub(cols.BBMiddle, ColScale(Num(2), cols.bb_std))]
  /\ ipc' = "stoch_range"
  /\ UNCHANGED <<hist, orchVars>>

\* lines 67-68
IndStochRange ==
  /\ ipc = "stoch_range"
  /\ cols' = [cols EXCEPT !.low_14 = RollingMin(Low, 14),
                          !.high_14 = RollingMax(High, 14)]
  /\ ipc' = "stoch_k"
  /\ UNCHANGED <<hist, orchVars>>

\* line 69
IndStochK ==
  /\ ipc = "stoch_k"
  /\ cols' = [cols EXCEPT !.StochK = StochKOf(Close, cols.low_14, cols.high_14)]
  /\ ipc' = "stoch_d"
  /\ UNCHANGED <<hist, orchVars>>

\* line 70
IndStochD ==
  /\ ipc = "stoch_d"
  /\ cols' = [cols EXCEPT !.StochD = RollingMean(cols.StochK, 3)]
  /\ ipc' = "tr"
  /\ UNCHANGED <<hist, orchVars>>

\* lines 73-76
IndTR ==
  /\ ipc = "tr"
  /\ cols' = [cols EXCEPT !.tr = TrueRange(High, Low, Close)]
  /\ ipc' = "atr"
  /\ UNCHANGED <<hist, orchVars>>

\* line 77
IndATR ==
  /\ ipc = "atr"
  /\ cols' = [cols EXCEPT !.ATR = RollingMean(cols.tr, 14)]
  /\ ipc' = "tail"
  /\ UNCHANGED <<hist, orchVars>>

\* line 85
IndTail ==
  /\ ipc = "tail"
  /\ cols' = [cols EXCEPT !.recent = TailRowsOf(Len(hist), TailRows)]
  /\ ipc' = "done"
  /\ UNCHANGED <<hist, orchVars>>

NextInd ==
  \/ IndLenCheck \/ IndMA \/ IndDelta \/ IndAvg \/ IndRSI \/ IndBBMid
  \/ IndBBBands \/ IndStochRange \/ IndStochK \/ IndStochD \/ IndTR \/ IndATR
  \/ IndTail

SpecInd == InitInd /\ [][NextInd]_vars

\* ========================================================================
\* Properties
\* ========================================================================
Last(q) == q[Len(q)]
TerminalStages == {"Recorded", "Skipped", "Failed"}
Terminal(p) == path[p] # <<>> /\ Last(path[p]) \in TerminalStages
Positions == 1..Len(path)
FetchOver == fetch_called /\ pc \in {"returned", "end", "crashed"}

\* ---- C1 -----------------------------------------------------------------
\* The errors raised inside the try block (lookup, info, history, indicator
\* block, extraction) are isolated: when fetch_stock_data returns, every
\* identifier was attempted, a failing one is no key of the result, and one
\* that fetched without error with at least 200 bars is a key.
CaughtErrorsIsolated ==
  pc = "returned" =>
    \A p \in 1..Len(tickers) :
      LET o == ProviderOf(tickers[p])
      IN /\ path[p] # <<>>
         /\ o.fail # "none" => tickers[p] \notin Keys(all_data)
         /\ (o.fail = "none" /\ o.bars >= MinBars) => tickers[p] \in Keys(all_data)

\* C1: an error raised at any step of fetching or computing for one
\* identifier, the building of the group's provider handle included, never
\* propagates out of fetch_stock_data; the failing identifier is absent from
\* the result, every later identifier is attempted and every healthy
\* identifier with at least 200 bars is present.
C1_NoErrorPropagates ==
  /\ ~(pc = "crashed" /\ exc = "HandleError")
  /\ CaughtErrorsIsolated

\* ---- C2 -----------------------------------------------------------------
ShortSeries(p) ==
  LET o == ProviderOf(tickers[p])
  IN o.fail \in {"none", "calc"} /\ o.bars < MinBars
Range(q) == {q[k] : k \in 1..Len(q)}

\* C2: an identifier whose fetched series has fewer than 200 bars gets no
\* indicator column, raises no error, is no key of the result and is followed
\* by the next identifier; an identifier with 200 or more bars whose
\* processing raises no error is a key of the returned mapping.
C2_ShortSeriesSkipped ==
  /\ \A p \in Positions :
       ShortSeries(p) =>
         /\ p \notin computed
         /\ "Compute" \notin Range(path[p])
         /\ "Failed" \notin Range(path[p])
         /\ tickers[p] \notin Keys(all_data)
         /\ Terminal(p) => path[p] = <<"Fetch", "Skipped">>
  /\ pc = "returned" =>
       \A p \in Positions :
         /\ Terminal(p)
         /\ (ProviderOf(tickers[p]).fail = "none"
             /\ ProviderOf(tickers[p]).bars >= MinBars)
              => /\ tickers[p] \in Keys(all_data)
                 /\ p \in computed

\* a short series was skipped and a later identifier with exactly 200 bars
\* was recorded
C2_Witness ==
  /\ pc = "returned"
  /\ \E p, q \in Positions :
       /\ p < q
       /\ ShortSeries(p)
       /\ path[p] = <<"Fetch", "Skipped">>
       /\ ProviderOf(tickers[q]).bars = MinBars
       /\ Last(path[q]) = "Recorded"
       /\ tickers[q] \in Keys(all_data)

\* ---- C3 -----------------------------------------------------------------
\* C3: on the same identifier list and the same provider answers, the run
\* with the group size of the source and the run with group size 1 end the
\* same way, and when they return, they return the same mapping: the same
\* keys in the same insertion order with the same window for each key.
C3_GroupingTransparent ==
  (first.done /\ pc \in {"returned", "crashed"}) =>
    /\ first.raised = (pc = "crashed")
    /\ pc = "returned" => all_data = first.data

\* both runs returned on a list longer than one group, with a failure and a
\* skip among the identifiers and at least one window recorded
C3_Witness ==
  /\ first.done
  /\ bs = 1
  /\ pc = "returned"
  /\ Len(tickers) > batch_size
  /\ Len(all_data) >= 1
  /\ \E p \in Positions : Last(path[p]) = "Failed"

\* ---- C4 -----------------------------------------------------------------
SourcePcs == {"read_html", "first_table", "symbol_column"}

\* C4: with an empty identifier list the run ends early with the message and
\* without failing: fetch_stock_data is not called and neither file is
\* written; with a non-empty list the symbol-list file is written before any
\* identifier is processed and the report only after every identifier was
\* attempted.
C4_EmptyListEndsEarly ==
  /\ tickers = <<>> =>
       /\ ~fetch_called /\ ~csv_written /\ ~report_written
       /\ pc \in SourcePcs \cup {"truthy", "end", "crashed"}
       /\ pc = "end" => (message /\ exc = "none")
       /\ pc = "crashed" => exc \in SourceErrors \cup {"IndexError", "KeyError"}
  /\ message => (tickers = <<>> /\ pc = "end")
  /\ fetch_called => csv_written
  /\ (\E p \in Positions : path[p] # <<>>) => csv_written
  /\ report_written => (fetch_called /\ \A p \in 1..Len(tickers) : Terminal(p))

\* the source returned an empty list and the script ended with the message
C4_Witness ==
  /\ pc = "end"
  /\ tickers = <<>>
  /\ message
  /\ ~fetch_called

\* ---- C5 -----------------------------------------------------------------
\* C5: every failure of the symbol source (network error, parse error,
\* missing first table, missing 'Symbol' column) makes
\* get_sp500_tickers_wikipedia return an empty list instead of raising.
C5_SourceFailureReturnsEmpty ==
  ~(pc = "crashed" /\ exc \in SourceErrors \cup {"IndexError", "KeyError"})

\* ---- C8 -----------------------------------------------------------------
StagePaths ==
  {<<>>, <<"Fetch">>, <<"Fetch", "Failed">>, <<"Fetch", "Skipped">>,
   <<"Fetch", "Compute">>, <<"Fetch", "Compute", "Failed">>,
   <<"Fetch", "Compute", "Extract">>, <<"Fetch", "Compute", "Extract", "Failed">>,
   <<"Fetch", "Compute", "Extract", "Recorded">>}

\* Every identifier goes through the stages in order, one identifier at a
\* time in list order, and a recorded identifier is a key of the result.
SequentialLifecycle ==
  \A p \in Positions :
    /\ path[p] \in StagePaths
    /\ \A q \in Positions : (p < q /\ path[q] # <<>>) => Terminal(p)
    /\ (path[p] # <<>> /\ Last(path[p]) = "Recorded") => tickers[p] \in Keys(all_data)

\* C8: fetch_stock_data attempts every identifier exactly once, in input
\* order and one at a time; each ends in exactly one of Recorded, Skipped or
\* Failed, Recorded only after Fetch, Compute and Extract in that order; and
\* when the run is over every identifier is in a terminal state.
C8_EveryIdentifierTerminal ==
  /\ SequentialLifecycle
  /\ FetchOver => \A p \in Positions : Terminal(p)

\* ---- indicator columns --------------------------------------------------
NBars == Len(hist)
\* every value the indicator block reads is a finite number (Open is read by
\* no indicator)
AllDefined ==
  \A t \in 1..NBars : IsNum(hist[t].High) /\ IsNum(hist[t].Low) /\ IsNum(hist[t].Close)
\* the 14 deltas ending at position t (bar t - 1); the first bar has none
DeltaIdx(t) == Max(2, t - 13)..t
NonDecreasing(t) ==
  \A k \in DeltaIdx(t) :
    IsNum(hist[k].Close) /\ IsNum(hist[k - 1].Close) /\ ~FLt(hist[k].Close, hist[k - 1].Close)
ConstantClose(t) ==
  \A k \in DeltaIdx(t) :
    IsNum(hist[k].Close) /\ IsNum(hist[k - 1].Close) /\ FEq(hist[k].Close, hist[k - 1].Close)
\* number of leading entries of a column that are not a finite number
DefinedFrom(col, warm) ==
  /\ Len(col) = NBars
  /\ \A t \in 1..NBars : IsNum(col[t]) <=> t > warm

\* ---- C6 -----------------------------------------------------------------
\* C6: at every bar t >= 13 whose 14 deltas have no loss (close never
\* decreases over the window, a constant close included), RSI is exactly 100
\* and not the undefined value (stated on the series without missing values).
C6_RsiSaturatesAt100 ==
  (cols.RSI # <<>> /\ AllDefined) =>
    \A t \in 14..NBars : NonDecreasing(t) => FEq(cols.RSI[t], Num(100))

\* The part of C6 the code does satisfy: no loss and at least one gain.
RsiSaturatesOnGain ==
  cols.RSI # <<>> =>
    \A t \in 14..NBars :
      /\ (NonDecreasing(t) /\ ~ConstantClose(t)) => FEq(cols.RSI[t], Num(100))
      /\ ConstantClose(t) => IsNaN(cols.RSI[t])

\* ---- C7 -----------------------------------------------------------------
ZeroRange(t) ==
  /\ IsNum(cols.high_14[t]) /\ IsNum(cols.low_14[t])
  /\ FEq(cols.high_14[t], cols.low_14[t])

\* C7: at every bar t >= 13 whose trailing 14-bar maximum high equals its
\* minimum low, Stoch %K is the undefined value whatever the close is: it is
\* never a number and never plus or minus infinity (stated on the series
\* without missing values).
C7_StochUndefinedOnZeroRange ==
  (cols.StochK # <<>> /\ AllDefined) =>
    \A t \in 14..NBars : ZeroRange(t) => IsNaN(cols.StochK[t])

\* ---- C9 -----------------------------------------------------------------
\* C9 as stated: on a series of at least 200 bars with every value defined,
\* RSI and ATR have the length of the series and exactly 14 leading undefined
\* entries each (bars 0 to 13).
C9_FourteenLeadingUndefined ==
  (cols.ATR # <<>> /\ AllDefined) =>
    /\ Len(cols.RSI) = NBars /\ Len(cols.ATR) = NBars
    /\ \A t \in 1..14 : ~IsNum(cols.RSI[t]) /\ ~IsNum(cols.ATR[t])
    /\ IsNum(cols.RSI[15]) /\ IsNum(cols.ATR[15])

\* C9 amended: RSI and ATR have the length of the series and are undefined
\* at bars 0 to 12 (13 leading entries, not 14); ATR is a number at bar 13
\* and at every later bar; RSI at bar 13 is a number unless the close is
\* constant over bars 0 to 13 (average gain and loss both 0), where it is
\* undefined.
C9_ThirteenLeadingUndefined ==
  (cols.ATR # <<>> /\ AllDefined) =>
    /\ DefinedFrom(cols.ATR, 13)
    /\ Len(cols.RSI) = NBars
    /\ \A t \in 1..13 : IsNaN(cols.RSI[t])
    /\ IF ConstantClose(14) THEN IsNaN(cols.RSI[14]) ELSE IsNum(cols.RSI[14])

\* every value defined, RSI and ATR both numbers at bar 13
C9_Witness ==
  /\ ipc = "done"
  /\ NBars >= MinBars
  /\ AllDefined
  /\ IsNum(cols.RSI[14]) /\ IsNum(cols.ATR[14])
  /\ IsNaN(cols.RSI[13]) /\ IsNaN(cols.ATR[13])

\* ---- C10 ----------------------------------------------------------------
RangeNeverZero == \A t \in 14..NBars : ~ZeroRange(t)

\* C10: on a series of at least 200 bars with every value defined and a
\* 14-bar range that is never zero, 50D MA, 200D MA, the three Bollinger
\* columns, Stoch %K and Stoch %D have the length of the series, are
\* undefined at exactly their leading 49, 199, 19, 13 and 15 bars and are
\* numbers at every later bar.
C10_WarmupBars ==
  (ipc \in {"tr", "atr", "tail", "done"} /\ AllDefined /\ RangeNeverZero) =>
    /\ DefinedFrom(cols.MA50, 49)
    /\ DefinedFrom(cols.MA200, 199)
    /\ DefinedFrom(cols.BBMiddle, 19)
    /\ DefinedFrom(cols.BBUpper, 19)
    /\ DefinedFrom(cols.BBLower, 19)
    /\ DefinedFrom(cols.StochK, 13)
    /\ DefinedFrom(cols.StochD, 15)

\* a series longer than 200 bars, every value defined, range never zero,
\* with the 200-bar average defined at its last two bars only
C10_Witness ==
  /\ ipc = "done"
  /\ NBars > MinBars
  /\ AllDefined
  /\ RangeNeverZero
  /\ IsNum(cols.MA200[NBars]) /\ IsNum(cols.MA200[MinBars]) /\ IsNaN(cols.MA200[MinBars - 1])
  /\ IsNum(cols.StochD[16]) /\ IsNaN(cols.StochD[15])
====
